---------------------------- MODULE Spec2Model ----------------------------
(***************************************************************************)
(* A model of experimentation_tool.platform.Platform and of                *)
(* experimentation_tool.experiment.Experiment, together with the two       *)
(* population loops of tests/test_platform.py.                             *)
(*                                                                         *)
(* Python values are modelled as follows.                                  *)
(*   - int: an integer.  str: the sequence of its ASCII codes.  A value    *)
(*     that may be either (experiment_id is documented as int and passed   *)
(*     as "exp12" by the tests) is a record [t |-> "int"/"str", v |-> _].  *)
(*   - float: an exact rational <<numerator, denominator>>, or a record    *)
(*     [kind |-> "finite"/"nan"/"inf", ...] where IEEE special values can  *)
(*     arise.  Every comparison the model makes between two floats is      *)
(*     between rationals that are either equal or differ by far more than  *)
(*     a rounding error, so the rational comparison is the float one.      *)
(*   - an object: a record of its attributes; reading an attribute the     *)
(*     object does not have raises AttributeError.                         *)
(*   - the outcome of a call: [kind |-> "return", value |-> _] or          *)
(*     [kind |-> "raise", exc |-> _].                                      *)
(***************************************************************************)
EXTENDS Integers, Sequences, FiniteSets, TLC

(***************************************************************************)
(* Bounds of the model.                                                    *)
(***************************************************************************)
MaxUserId == 1
MaxCount == 11
MaxPrime == 8

(***************************************************************************)
(* hashlib.md5 (RFC 1321).  A 32-bit word is a pair <<high 16 bits, low 16 *)
(* bits>>, since integers here are 32-bit signed.                          *)
(***************************************************************************)
W16 == 65536

\* Bitwise AND of two 4-bit values a and b, at index 16 * a + b.
AndNib == [n \in 0..255 |->
             LET a == n \div 16
                 b == n % 16
             IN  ((a % 2) * (b % 2))
                 + 2 * (((a \div 2) % 2) * ((b \div 2) % 2))
                 + 4 * (((a \div 4) % 2) * ((b \div 4) % 2))
                 + 8 * ((a \div 8) * (b \div 8))]

\* Bitwise AND of two bytes a and b, at index 256 * a + b + 1 (SubSeq makes
\* the table a tuple, which is indexed in constant time).
AndByte ==
  SubSeq([m \in 1..65536 |->
            AndNib[(((m - 1) \div 4096) * 16) + (((m - 1) \div 16) % 16)] * 16
            + AndNib[((((m - 1) \div 256) % 16) * 16) + ((m - 1) % 16)]],
         1, 65536)

And16(a, b) == AndByte[(a \div 256) * 256 + (b \div 256) + 1] * 256
               + AndByte[(a % 256) * 256 + (b % 256) + 1]

Not16(a) == 65535 - a

Or16(a, b) == a + b - And16(a, b)

Xor16(a, b) == a + b - 2 * And16(a, b)

\* The four auxiliary functions of RFC 1321, on one half-word.
F16(b, c, d) == And16(b, c) + And16(Not16(b), d)

G16(b, c, d) == And16(b, d) + And16(c, Not16(d))

H16(b, c, d) == Xor16(Xor16(b, c), d)

I16(b, c, d) == Xor16(c, Or16(b, Not16(d)))

Pow2 == <<1, 2, 4, 8, 16, 32, 64, 128, 256, 512, 1024, 2048, 4096, 8192,
          16384, 32768, 65536>>

\* Addition modulo 2^32.
Add32(a, b) == <<(a[1] + b[1] + ((a[2] + b[2]) \div W16)) % W16,
                 (a[2] + b[2]) % W16>>

Rot16(x, s) == <<((x[1] * Pow2[s + 1]) % W16) + (x[2] \div Pow2[17 - s]),
                 ((x[2] * Pow2[s + 1]) % W16) + (x[1] \div Pow2[17 - s])>>

\* Left rotation of a 32-bit word by s bits, 0 < s < 32.
Rotl(x, s) == IF s >= 16 THEN Rot16(<<x[2], x[1]>>, s - 16) ELSE Rot16(x, s)

\* Per-round shift amounts.
S == <<7, 12, 17, 22, 7, 12, 17, 22, 7, 12, 17, 22, 7, 12, 17, 22,
       5, 9, 14, 20, 5, 9, 14, 20, 5, 9, 14, 20, 5, 9, 14, 20,
       4, 11, 16, 23, 4, 11, 16, 23, 4, 11, 16, 23, 4, 11, 16, 23,
       6, 10, 15, 21, 6, 10, 15, 21, 6, 10, 15, 21, 6, 10, 15, 21>>

\* K[i] = floor(2^32 * abs(sin(i))), i = 1..64.
K == <<
   <<55146, 42104>>, <<59591, 46934>>, <<9248, 28891>>, <<49597, 52974>>,
   <<62844, 4015>>, <<18311, 50730>>, <<43056, 17939>>, <<64838, 38145>>,
   <<27008, 39128>>, <<35652, 63407>>, <<65535, 23473>>, <<35164, 55230>>,
   <<27536, 4386>>, <<64920, 29075>>, <<42617, 17294>>, <<18868, 2081>>,
   <<63006, 9570>>, <<49216, 45888>>, <<9822, 23121>>, <<59830, 51114>>,
   <<54831, 4189>>, <<580, 5203>>, <<55457, 59009>>, <<59347, 64456>>,
   <<8673, 52710>>, <<49975, 2006>>, <<62677, 3463>>, <<17754, 5357>>,
   <<43491, 59653>>, <<64751, 41976>>, <<26479, 729>>, <<36138, 19594>>,
   <<65530, 14658>>, <<34673, 63105>>, <<28061, 24866>>, <<64997, 14348>>,
   <<42174, 59972>>, <<19422, 53161>>, <<63163, 19296>>, <<48831, 48240>>,
   <<10395, 32454>>, <<60065, 10234>>, <<54511, 12421>>, <<1160, 7429>>,
   <<55764, 53305>>, <<59099, 39397>>, <<8098, 31992>>, <<50348, 22117>>,
   <<62505, 8772>>, <<17194, 65431>>, <<43924, 9127>>, <<64659, 41017>>,
   <<25947, 22979>>, <<36620, 52370>>, <<65519, 62589>>, <<34180, 24017>>,
   <<28584, 32335>>, <<65068, 59104>>, <<41729, 17172>>, <<19976, 4513>>,
   <<63315, 32386>>, <<48442, 62005>>, <<10967, 53947>>, <<60294, 54161>> >>

\* Initial chaining value: 67452301 efcdab89 98badcfe 10325476.
IV == << <<26437, 8961>>, <<61389, 43913>>, <<39098, 56574>>, <<4146, 21622>> >>

Mix(r, b, c, d) ==
  IF r < 16 THEN <<F16(b[1], c[1], d[1]), F16(b[2], c[2], d[2])>>
  ELSE IF r < 32 THEN <<G16(b[1], c[1], d[1]), G16(b[2], c[2], d[2])>>
  ELSE IF r < 48 THEN <<H16(b[1], c[1], d[1]), H16(b[2], c[2], d[2])>>
  ELSE <<I16(b[1], c[1], d[1]), I16(b[2], c[2], d[2])>>

\* The message word round r reads.
MsgIdx(r) ==
  IF r < 16 THEN r
  ELSE IF r < 32 THEN (5 * r + 1) % 16
  ELSE IF r < 48 THEN (3 * r + 5) % 16
  ELSE (7 * r) % 16

\* One round: (A, B, C, D) becomes (D, B + rotl(A + f(B,C,D) + K + M, s), B, C).
Round(st, M, r) ==
  <<st[4],
    Add32(st[2],
          Rotl(Add32(Add32(Add32(Mix(r, st[2], st[3], st[4]), st[1]), K[r + 1]),
                     M[MsgIdx(r) + 1]),
               S[r + 1])),
    st[2],
    st[3]>>

\* The 64 rounds on one block.  (The first conjunct of the test forces st
\* before the next round is entered; it is never the empty tuple.)
RECURSIVE Rounds(_, _, _)
Rounds(st, M, r) ==
  IF st # <<>> /\ r = 64 THEN st ELSE Rounds(Round(st, M, r), M, r + 1)

\* Padding: 0x80, zeros up to 56 mod 64, the bit length as 64 bits little-endian
\* (messages here are shorter than 2^21 bytes).
Pad(msg) ==
  msg \o <<128>> \o [k \in 1..((55 - Len(msg)) % 64) |-> 0]
      \o <<(8 * Len(msg)) % 256, ((8 * Len(msg)) \div 256) % 256,
           ((8 * Len(msg)) \div 65536) % 256, 0, 0, 0, 0, 0>>

\* The 16 little-endian words of block k (from 0) of the padded message p.
Block(p, k) ==
  [w \in 1..16 |->
     <<p[64 * k + 4 * w] * 256 + p[64 * k + 4 * w - 1],
       p[64 * k + 4 * w - 2] * 256 + p[64 * k + 4 * w - 3]>>]

AddState(st, o) ==
  <<Add32(st[1], o[1]), Add32(st[2], o[2]), Add32(st[3], o[3]), Add32(st[4], o[4])>>

RECURSIVE Blocks(_, _, _)
Blocks(st, p, k) ==
  IF st # <<>> /\ 64 * k >= Len(p) THEN st
  ELSE Blocks(AddState(st, Rounds(st, Block(p, k), 0)), p, k + 1)

\* The digest as four words A, B, C, D.
md5(msg) == Blocks(IV, Pad(msg), 0)

\* The hex digits (0..15) of a word, in digest order: bytes little-endian,
\* each byte high nibble first.
WordHex(w) ==
  <<(w[2] % 256) \div 16, w[2] % 16, w[2] \div 4096, (w[2] \div 256) % 16,
    (w[1] % 256) \div 16, w[1] % 16, w[1] \div 4096, (w[1] \div 256) % 16>>

DigestHex(d) == WordHex(d[1]) \o WordHex(d[2]) \o WordHex(d[3]) \o WordHex(d[4])

\* hashlib.md5(msg).hexdigest(), as 32 hex digit values.
hexdigest(msg) == DigestHex(md5(msg))

(***************************************************************************)
(* str(), int(_, 16).                                                      *)
(***************************************************************************)
RECURSIVE Digits(_)
Digits(n) == IF n < 10 THEN <<48 + n>> ELSE Digits(n \div 10) \o <<48 + (n % 10)>>

PyInt(n) == [t |-> "int", v |-> n]

PyStr(s) == [t |-> "str", v |-> s]

\* str(x): the decimal form of an int ("-" is 45), a str unchanged.
str(x) ==
  IF x.t = "str" THEN x.v
  ELSE IF x.v < 0 THEN <<45>> \o Digits(0 - x.v)
  ELSE Digits(x.v)

\* int(digits, 16)
RECURSIVE int16(_)
int16(hex) ==
  IF hex = <<>> THEN 0
  ELSE 16 * int16(SubSeq(hex, 1, Len(hex) - 1)) + hex[Len(hex)]


(***************************************************************************)
(* Outcomes of a call, and attribute access.                               *)
(***************************************************************************)
Return(v) == [kind |-> "return", value |-> v]

Raise(e) == [kind |-> "raise", exc |-> e]

\* obj.name
HasAttr(obj, name) == name \in DOMAIN obj

(***************************************************************************)
(* Floats.  A rational is <<n, d>> with d > 0.                             *)
(***************************************************************************)
RatGt(p, q) == p[1] * q[2] > q[1] * p[2]

RatLt(p, q) == p[1] * q[2] < q[1] * p[2]

RatEq(p, q) == p[1] * q[2] = q[1] * p[2]

Finite(v) == [v |-> v, kind |-> "finite"]

NaN == [kind |-> "nan"]

Inf == [kind |-> "inf"]

(***************************************************************************)
(* Platform.split_traffic and Platform.split_traffic_naive.                *)
(***************************************************************************)
\* test_id = str(id) + "-" + str(experiment_id), encoded as ASCII
test_id(id, experiment_id) == str(PyInt(id)) \o <<45>> \o str(experiment_id)

\* test_id_final_int = int(md5(test_id).hexdigest()[:6], 16)
test_id_final_int(id, experiment_id) ==
  int16(SubSeq(hexdigest(test_id(id, experiment_id)), 1, 6))

\* ab_split = test_id_final_int / 0xFFFFFF
ab_split(h) == <<h, 16777215>>

\* The same with ab_split >= control_group_size.
split_label_ge(split, control_group_size) ==
  IF ~RatLt(split, control_group_size) THEN "t" ELSE "c"

\* "t" if ab_split > control_group_size else "c"
split_label(split, control_group_size) ==
  IF RatGt(split, control_group_size) THEN "t" ELSE "c"

\* The same with ab_split >= prime_n // 2.
split_traffic_naive_ge(id, prime_n) ==
  IF id % prime_n >= prime_n \div 2 THEN "t" ELSE "c"

\* Python's % takes the sign of the divisor and // rounds down, as % and \div
\* do here for prime_n > 0.
split_traffic_naive(id, prime_n) ==
  IF id % prime_n > prime_n \div 2 THEN "t" ELSE "c"

\* A split that ignores the hash and takes the id modulo 7.
split_traffic_by_modulo(id, experiment_id, control_group_size) ==
  split_traffic_naive(id, 7)

split_traffic(id, experiment_id, control_group_size) ==
  split_label(ab_split(test_id_final_int(id, experiment_id)), control_group_size)

(***************************************************************************)
(* Platform.are_buckets_balanced.                                          *)
(***************************************************************************)
\* scipy.stats.chisquare([observed], [expected]).statistic: the sum over the
\* one category of (f_obs - f_exp)^2 / f_exp, in numpy's float arithmetic,
\* where x / 0 is inf for x > 0 and nan for x = 0.  (This is chisquare as the
\* tests of the repository use it: with 9 observed against 10 expected it
\* returns a statistic.)
chisquare_statistic(observed, expected) ==
  IF expected[1] = 0
    THEN IF observed[1] = 0 THEN NaN ELSE Inf
    ELSE Finite(<<(observed[1] * expected[2] - expected[1] * observed[2])
                    * (observed[1] * expected[2] - expected[1] * observed[2]),
                  observed[2] * observed[2] * expected[2] * expected[1]>>)

\* The same with 0 <= statistic.
chained_0_le_x_lt_1(s) ==
  /\ s.kind = "finite"
  /\ ~RatLt(s.v, <<0, 1>>)
  /\ RatLt(s.v, <<1, 1>>)

\* 0 < statistic < 1; every comparison with nan is false.
chained_0_lt_x_lt_1(s) ==
  /\ s.kind = "finite"
  /\ RatGt(s.v, <<0, 1>>)
  /\ RatLt(s.v, <<1, 1>>)

are_buckets_balanced(observed, expected) ==
  Return(chained_0_lt_x_lt_1(chisquare_statistic(observed, expected)))

(***************************************************************************)
(* Platform.calculate_sample_size.                                         *)
(*                                                                         *)
(* The four arguments are given in hundredths (alpha = 5 is 0.05).  The    *)
(* float computation is carried out in fixed point: delta in units of      *)
(* 10^-4, the radicands in units of 10^-8, the quantiles, the standard     *)
(* deviations and their combination in units of 10^-6, the result in units *)
(* of 10^-4.  Each step truncates, so a finite result is within a few      *)
(* units of 10^-4 of the float one; whether a radicand is negative and     *)
(* whether delta is zero are exact.                                        *)
(***************************************************************************)
MulDivStep(h, a, bit, c) ==
  <<2 * h[1] + bit * (a \div c) + ((2 * h[2] + bit * (a % c)) \div c),
    (2 * h[2] + bit * (a % c)) % c>>

\* <<q, r>> with a * b = q * c + r and 0 <= r < c, for a, b >= 0 and
\* 0 < c < 2^29, without forming a * b.
RECURSIVE MulDivRem(_, _, _)
MulDivRem(a, b, c) ==
  IF b = 0 THEN <<0, 0>> ELSE MulDivStep(MulDivRem(a, b \div 2, c), a, b % 2, c)

Abs(x) == IF x < 0 THEN 0 - x ELSE x

Sign(x) == IF x < 0 THEN 0 - 1 ELSE IF x > 0 THEN 1 ELSE 0

\* a * b / c truncated toward zero.
MulDiv(a, b, c) == Sign(a) * Sign(b) * MulDivRem(Abs(a), Abs(b), c)[1]

\* The largest s in lo..hi-1 with s * s <= r8 * 10^4 (up to the truncation
\* of s * s / 10^4), by bisection.
RECURSIVE SqrtBisect(_, _, _)
SqrtStep(lo, hi, mid, r8) ==
  IF MulDiv(mid, mid, 10000) <= r8 THEN SqrtBisect(mid, hi, r8)
  ELSE SqrtBisect(lo, mid, r8)

SqrtBisect(lo, hi, r8) ==
  IF hi - lo <= 1 THEN lo ELSE SqrtStep(lo, hi, (lo + hi) \div 2, r8)

\* np.sqrt of r8 * 10^-8, in units of 10^-6; nan for a negative argument.
np_sqrt(r8) == IF r8 < 0 THEN NaN ELSE Finite(SqrtBisect(0, 1048576, r8))

\* scipy.stats.norm.ppf(k / 200) in units of 10^-6, at the probabilities the
\* model uses (norm.ppf(0.975) = 1.959964, norm.ppf(0.8) = 0.841621, ...).
norm_ppf_table ==
  (195 :> 1959964) @@ (190 :> 1644854) @@ (150 :> 674490) @@ (100 :> 0)
  @@ (160 :> 841621) @@ (180 :> 1281552) @@ (50 :> (0 - 674490))

norm_ppf(k) == norm_ppf_table[k]

\* delta = base_rate * pct_min_detectable_efect, in units of 10^-4
delta(base_rate, pct) == base_rate * pct

\* 2 * base_rate * (1.0 - base_rate), in units of 10^-8
sd1_radicand(base_rate) == 2 * base_rate * (100 - base_rate) * 10000

\* base_rate * (1.0 - base_rate) + (base_rate + delta) * (1.0 - base_rate - delta),
\* in units of 10^-8
sd2_radicand(base_rate, d) ==
  base_rate * (100 - base_rate) * 10000
  + (100 * base_rate + d) * (10000 - 100 * base_rate - d)

\* t_alpha2 * sd1 + t_beta * sd2, in units of 10^-6
combine(t_alpha2, sd1, t_beta, sd2) ==
  IF sd1.kind = "nan" \/ sd2.kind = "nan" THEN NaN
  ELSE Finite(MulDiv(t_alpha2, sd1.v, 1000000) + MulDiv(t_beta, sd2.v, 1000000))

\* y / delta, in units of 10^-6
per_delta(y, d) == MulDiv(y, 10000, d)

square_1e4(q) == MulDiv(q, q, 100000000)

\* y * y / (delta * delta), in units of 10^-4; numpy's division by zero
\* returns inf, or nan for 0 / 0, and nan propagates.
quotient(y, d) ==
  IF y.kind = "nan" THEN NaN
  ELSE IF d = 0 THEN (IF y.v = 0 THEN NaN ELSE Inf)
  ELSE Finite(square_1e4(per_delta(y.v, d)))

calculate_sample_size(alpha, stats_power, base_rate, pct_min_detectable_efect) ==
  Return(quotient(
    combine(norm_ppf(200 - alpha),
            np_sqrt(sd1_radicand(base_rate)),
            norm_ppf(2 * stats_power),
            np_sqrt(sd2_radicand(base_rate, delta(base_rate, pct_min_detectable_efect)))),
    delta(base_rate, pct_min_detectable_efect)))

\* round(x) of a finite x in units of 10^-4: to the nearest integer, ties to
\* the even one.
round(x) ==
  IF x % 10000 > 5000 \/ (x % 10000 = 5000 /\ (x \div 10000) % 2 = 1)
    THEN x \div 10000 + 1
    ELSE x \div 10000

(***************************************************************************)
(* Experiment (a dataclass: its attributes are its fields), Database and   *)
(* Platform.                                                               *)
(***************************************************************************)
Statuses == {"DONE", "NEW", "RUNNING"}

Experiment(experiment_id, status) ==
  [name |-> "checkout",
   experiment_id |-> experiment_id,
   control_group_size |-> <<1, 2>>,
   status |-> status,
   description |-> "button colour",
   metric |-> "conversion",
   control_metric |-> "conversion",
   traffic_percentage |-> <<1, 1>>,
   baseline_converstion_rate |-> <<1, 5>>,
   minimum_detectable_effect |-> <<3, 50>>,
   min_significance |-> <<19, 20>>]

\* What a metric query returns: a list of floats or one float.
PyList(s) == [t |-> "list", v |-> s]

PyFloat(q) == [t |-> "float", v |-> q]

\* A database: the class Database itself, whose two methods raise
\* NotImplementedError, or a subclass that returns stored samples.
BaseDatabase == [class |-> "Database"]

StoredDatabase(control, test) ==
  [class |-> "StoredDatabase", control |-> control, test |-> test]

\* database.get_metric_control(...) / database.get_metric_test(...), called
\* with the arguments named in given; both are declared (self, metric,
\* experiment_id), so a call that does not bind both raises TypeError.
get_metric(db, group, given) ==
  IF given # {"metric", "experiment_id"} THEN Raise("TypeError")
  ELSE IF db.class = "Database" THEN Raise("NotImplementedError")
  ELSE Return(db[group])

\* scipy.stats.ttest_ind(a, b).pvalue, left uninterpreted.
ttest_ind_pvalue(a, b) == [t |-> "float", pvalue_of |-> <<a, b>>]

significance_result(self, metric_control, metric_test) ==
  IF metric_control.kind = "raise" THEN metric_control
  ELSE IF metric_test.kind = "raise" THEN metric_test
  ELSE IF ~HasAttr(self, "status") THEN Raise("AttributeError")
  ELSE IF self.status = "DONE"
    THEN Return(ttest_ind_pvalue(metric_control.value, metric_test.value))
  ELSE Return(PyInt(0 - 1))

\* experiment.metric and experiment.id are evaluated before the first query
\* is made; get_metric_test is called with the experiment as its one argument.
calculate_significance(self, experiment) ==
  IF ~HasAttr(experiment, "metric") \/ ~HasAttr(experiment, "id")
    THEN Raise("AttributeError")
  ELSE significance_result(self,
                           get_metric(self.database, "control", {"metric", "experiment_id"}),
                           get_metric(self.database, "test", {"metric"}))

\* metric_control - metric_test: float subtraction; a list has no "-".
subtract(a, b) ==
  IF a.t = "float" /\ b.t = "float"
    THEN Return(<<a.v[1] * b.v[2] - b.v[1] * a.v[2], a.v[2] * b.v[2]>>)
  ELSE Raise("TypeError")

delta_result(metric_control, metric_test) ==
  IF metric_control.kind = "raise" THEN metric_control
  ELSE IF metric_test.kind = "raise" THEN metric_test
  ELSE subtract(metric_control.value, metric_test.value)

calculate_delta(self, experiment) ==
  IF ~HasAttr(experiment, "metric") \/ ~HasAttr(experiment, "id")
    THEN Raise("AttributeError")
  ELSE delta_result(get_metric(self.database, "control", {"metric", "experiment_id"}),
                    get_metric(self.database, "test", {"metric", "experiment_id"}))

(***************************************************************************)
(* State: the Platform object, the last call made on it and what it gave   *)
(* back, the unit test in progress, and one earlier split_traffic call     *)
(* kept for comparison with later ones.                                    *)
(***************************************************************************)
VARIABLES experiments, database, call, ret, test, remembered

vars == <<experiments, database, call, ret, test, remembered>>

\* ids = np.arange(100**2)
Population == 10000

exp12 == PyStr(<<101, 120, 112, 49, 50>>)

Databases ==
  {BaseDatabase,
   StoredDatabase(PyList(<<(<<1, 1>>), (<<1, 1>>)>>), PyList(<<(<<1, 2>>), (<<1, 2>>)>>)),
   StoredDatabase(PyFloat(<<1, 1>>), PyFloat(<<1, 2>>))}

\* An Experiment on which the caller has also set an attribute id.
WithId(experiment) ==
  [a \in DOMAIN experiment \cup {"id"} |->
     IF a = "id" THEN experiment.experiment_id ELSE experiment[a]]

ExperimentInputs ==
  {Experiment(12, "NEW"), Experiment(12, "RUNNING"), Experiment(12, "DONE"),
   WithId(Experiment(12, "DONE"))}

\* Small ids, and two whose hash prefix is the largest and the smallest.
UserIds == (0 .. MaxUserId) \cup {2059958, 20485088}

ExperimentIds == {exp12, PyInt(66)}

ControlGroupSizes == {<<0, 1>>, <<1, 2>>, <<1, 1>>}

Counts == {<<n, d>> : n \in 0 .. MaxCount, d \in {1, 2}}

Alphas == {5, 10, 50}

Powers == {25, 50, 80, 90}

BaseRates == {20, 50, 90}

Effects == {0, 6, 50, 100}

NoCall == [op |-> "none"]

NoTest == [name |-> "none"]

Pending == [kind |-> "pending"]

\* Platform(database)
Init ==
  /\ experiments = <<>>
  /\ database \in Databases
  /\ call = NoCall
  /\ ret = [kind |-> "none"]
  /\ test = NoTest
  /\ remembered = NoCall

self == [database |-> database, experiments |-> experiments]

\* Any call that is not the remembered one comes between it and a later one.
Touch(r) == IF r.op = "none" THEN r ELSE [r EXCEPT !.between = TRUE]

\* A caller makes the call c; the operation then runs as one step.
Invoke(c) ==
  /\ ret.kind # "pending"
  /\ test = NoTest
  /\ call' = c
  /\ ret' = Pending
  /\ UNCHANGED <<experiments, database, test, remembered>>

Running(op) == ret.kind = "pending" /\ call.op = op

SampleSizeArgs(alpha, stats_power, base_rate, pct) ==
  [base_rate |-> base_rate, alpha |-> alpha, stats_power |-> stats_power,
   pct_min_detectable_efect |-> pct, op |-> "calculate_sample_size"]

CallCalculateSampleSize ==
  \E pct \in {0, 6} : Invoke(SampleSizeArgs(5, 80, 20, pct))

CalculateSampleSize ==
  /\ Running("calculate_sample_size")
  /\ ret' = calculate_sample_size(call.alpha, call.stats_power, call.base_rate,
                                  call.pct_min_detectable_efect)
  /\ remembered' = Touch(remembered)
  /\ UNCHANGED <<experiments, database, call, test>>

BalancedArgs(observed, expected) ==
  [observed |-> observed, expected |-> expected, op |-> "are_buckets_balanced"]

CallAreBucketsBalanced ==
  \E observed \in {<<9, 1>>, <<1, 1>>} : Invoke(BalancedArgs(observed, <<10, 1>>))

AreBucketsBalanced ==
  /\ Running("are_buckets_balanced")
  /\ ret' = are_buckets_balanced(call.observed, call.expected)
  /\ remembered' = Touch(remembered)
  /\ UNCHANGED <<experiments, database, call, test>>

CallCalculateSignificance ==
  \E experiment \in ExperimentInputs :
    Invoke([experiment |-> experiment, op |-> "calculate_significance"])

CalculateSignificance ==
  /\ Running("calculate_significance")
  /\ ret' = calculate_significance(self, call.experiment)
  /\ remembered' = Touch(remembered)
  /\ UNCHANGED <<experiments, database, call, test>>

CallCalculateDelta ==
  \E experiment \in ExperimentInputs :
    Invoke([experiment |-> experiment, op |-> "calculate_delta"])

CalculateDelta ==
  /\ Running("calculate_delta")
  /\ ret' = calculate_delta(self, call.experiment)
  /\ remembered' = Touch(remembered)
  /\ UNCHANGED <<experiments, database, call, test>>

NaiveArgs(id, prime_n) == [id |-> id, prime_n |-> prime_n, op |-> "split_traffic_naive"]

CallSplitTrafficNaive ==
  \E id \in {0 - 1, 0, 4} : Invoke(NaiveArgs(id, 7))

SplitTrafficNaive ==
  /\ Running("split_traffic_naive")
  /\ ret' = Return(split_traffic_naive(call.id, call.prime_n))
  /\ remembered' = Touch(remembered)
  /\ UNCHANGED <<experiments, database, call, test>>

SplitTrafficArgs(id, experiment_id, control_group_size) ==
  [id |-> id, experiment_id |-> experiment_id,
   control_group_size |-> control_group_size, op |-> "split_traffic"]

CallSplitTraffic ==
  \E id \in UserIds, experiment_id \in ExperimentIds,
     control_group_size \in ControlGroupSizes :
    Invoke(SplitTrafficArgs(id, experiment_id, control_group_size))

\* The call just answered may be the one kept for later comparison.
Remember(r, c, label) ==
  {Touch(r), [op |-> "split_traffic", between |-> FALSE, label |-> label, args |-> c]}

Flip(label) == IF label = "t" THEN "c" ELSE "t"

\* A split that gives the other label once another call has come between.
SplitTrafficAlternating ==
  /\ Running("split_traffic")
  /\ ret' = IF remembered.op # "none" /\ remembered.between
              THEN Return(Flip(remembered.label))
              ELSE Return(split_traffic(call.id, call.experiment_id, call.control_group_size))
  /\ remembered' \in Remember(remembered, call, ret'.value)
  /\ UNCHANGED <<experiments, database, call, test>>

\* A classmethod that reads nothing but its arguments.
SplitTraffic ==
  /\ Running("split_traffic")
  /\ ret' = Return(split_traffic(call.id, call.experiment_id, call.control_group_size))
  /\ remembered' \in Remember(remembered, call, ret'.value)
  /\ UNCHANGED <<experiments, database, call, test>>

Next ==
  \/ CallCalculateSampleSize
  \/ CalculateSampleSize
  \/ CallSplitTraffic
  \/ SplitTraffic
  \/ CallSplitTrafficNaive
  \/ SplitTrafficNaive
  \/ CallCalculateSignificance
  \/ CalculateSignificance
  \/ CallAreBucketsBalanced
  \/ AreBucketsBalanced
  \/ CallCalculateDelta
  \/ CalculateDelta

Spec == Init /\ [][Next]_vars

(***************************************************************************)
(* The class methods on their own: the call is any one of a set of inputs. *)
(***************************************************************************)
InitCalled(calls) ==
  /\ experiments = <<>>
  /\ database = BaseDatabase
  /\ call \in calls
  /\ ret = Pending
  /\ test = NoTest
  /\ remembered = NoCall

SampleSizeCalls ==
  {SampleSizeArgs(alpha, stats_power, base_rate, pct) :
     alpha \in Alphas, stats_power \in Powers, base_rate \in BaseRates, pct \in Effects}

SpecSampleSize == InitCalled(SampleSizeCalls) /\ [][CalculateSampleSize]_vars

BalancedCalls == {BalancedArgs(observed, expected) : observed \in Counts, expected \in Counts}

SpecBalance == InitCalled(BalancedCalls) /\ [][AreBucketsBalanced]_vars

NaiveCalls ==
  {NaiveArgs(id, prime_n) : id \in (0 - MaxPrime) .. MaxPrime, prime_n \in 1 .. MaxPrime}

(***************************************************************************)
(* The unit tests test_split_traffic_naive and test_split_traffic: the     *)
(* method is applied to each id of np.arange(100**2) in turn, the labels   *)
(* are counted, and the counts are compared.                               *)
(***************************************************************************)
Counted(tst, label) ==
  [tst EXCEPT !.i = @ + 1,
              !.test_count = IF label = "t" THEN @ + 1 ELSE @,
              !.control_count = IF label = "c" THEN @ + 1 ELSE @]

TestSplitTrafficNaiveSetUp ==
  /\ test = NoTest
  /\ ret.kind # "pending"
  /\ test' = [name |-> "test_split_traffic_naive", i |-> 0, test_count |-> 0,
              control_count |-> 0, outcome |-> "running"]
  /\ UNCHANGED <<experiments, database, call, ret, remembered>>

\* split_traffic_naive(id) with the default prime_n = 7
TestSplitTrafficNaiveApply ==
  /\ test.name = "test_split_traffic_naive"
  /\ test.i < Population
  /\ call' = NaiveArgs(test.i, 7)
  /\ ret' = Return(split_traffic_naive(test.i, 7))
  /\ test' = Counted(test, ret'.value)
  /\ UNCHANGED <<experiments, database, remembered>>

\* assertNotEqual(test_count, control_count)
TestSplitTrafficNaiveAssert ==
  /\ test.name = "test_split_traffic_naive"
  /\ test.i = Population
  /\ test.outcome = "running"
  /\ test' = [test EXCEPT !.outcome =
                IF test.test_count # test.control_count THEN "passed" ELSE "failed"]
  /\ UNCHANGED <<experiments, database, call, ret, remembered>>

NextNaive ==
  \/ SplitTrafficNaive
  \/ TestSplitTrafficNaiveSetUp
  \/ TestSplitTrafficNaiveApply
  \/ TestSplitTrafficNaiveAssert

SpecNaive == InitCalled(NaiveCalls) /\ [][NextNaive]_vars

\* The experiment ids the population is split under, one per run.
TestExperimentIds == {exp12, PyInt(66)}

\* No Platform is constructed by the tests of the class methods.
InitTest ==
  /\ experiments = <<>>
  /\ database = BaseDatabase
  /\ call = NoCall
  /\ ret = [kind |-> "none"]
  /\ test = NoTest
  /\ remembered = NoCall

\* experiment_id, control_group_size = 0.5 and the first call, on 1765984
TestSplitTrafficSetUp ==
  \E experiment_id \in TestExperimentIds :
    /\ test = NoTest
    /\ call' = SplitTrafficArgs(1765984, experiment_id, <<1, 2>>)
    /\ ret' = Return(split_traffic(1765984, experiment_id, <<1, 2>>))
    /\ test' = [name |-> "test_split_traffic", experiment_id |-> experiment_id,
                control_group_size |-> <<1, 2>>, i |-> 0, test_count |-> 0,
                control_count |-> 0, outcome |-> "running"]
    /\ UNCHANGED <<experiments, database, remembered>>

TestSplitTrafficApply ==
  /\ test.name = "test_split_traffic"
  /\ test.i < Population
  /\ call' = SplitTrafficArgs(test.i, test.experiment_id, test.control_group_size)
  /\ ret' = Return(split_traffic(test.i, test.experiment_id, test.control_group_size))
  /\ test' = Counted(test, ret'.value)
  /\ UNCHANGED <<experiments, database, remembered>>

greater_count(tst) ==
  IF tst.test_count > tst.control_count THEN tst.test_count ELSE tst.control_count

\* assertAlmostEqual(first, second, delta): passes when abs(first - second) <= delta;
\* delta = 0.05 * greater_count, compared here after multiplying by 20.
assertAlmostEqual(tst) ==
  20 * Abs(tst.test_count - tst.control_count) <= greater_count(tst)

TestSplitTrafficAssert ==
  /\ test.name = "test_split_traffic"
  /\ test.i = Population
  /\ test.outcome = "running"
  /\ test' = [test EXCEPT !.outcome =
                IF assertAlmostEqual(test) THEN "passed" ELSE "failed"]
  /\ UNCHANGED <<experiments, database, call, ret, remembered>>

NextHash ==
  \/ TestSplitTrafficSetUp
  \/ TestSplitTrafficApply
  \/ TestSplitTrafficAssert

SpecHash == InitTest /\ [][NextHash]_vars

(***************************************************************************)
(* Properties.                                                             *)
(***************************************************************************)
Returned(op) == call.op = op /\ ret.kind # "pending"

\* C1: for every Experiment whose status is NEW or RUNNING,
\* calculate_significance completes with the not-ready outcome, never a
\* p-value and never an error; for status DONE and non-empty control and
\* test samples it completes with a p-value.
C1_NotReadyOrPValue ==
  Returned("calculate_significance") =>
    /\ call.experiment.status \in {"NEW", "RUNNING"} =>
         /\ ret.kind = "return"
         /\ ret.value.t = "int"
         /\ ret.value.v = 0 - 1
    /\ (call.experiment.status = "DONE" /\ database.class = "StoredDatabase") =>
         /\ ret.kind = "return"
         /\ ret.value.t = "float"

\* The mean of a list of floats, or the float itself.
RECURSIVE Sum(_)
Sum(s) ==
  IF s = <<>> THEN <<0, 1>>
  ELSE <<Head(s)[1] * Sum(Tail(s))[2] + Sum(Tail(s))[1] * Head(s)[2],
         Head(s)[2] * Sum(Tail(s))[2]>>

aggregate(sample) ==
  IF sample.t = "float" THEN sample.v
  ELSE <<Sum(sample.v)[1], Sum(sample.v)[2] * Len(sample.v)>>

Minus(p, q) == <<p[1] * q[2] - q[1] * p[2], p[2] * q[2]>>

\* C2: for every Experiment and every database that returns non-empty
\* control and test samples, calculate_delta returns aggregate(control) minus
\* aggregate(test); control [1.0, 1.0] and test [0.5, 0.5] give 0.5.
C2_DeltaIsControlMinusTest ==
  (Returned("calculate_delta") /\ database.class = "StoredDatabase") =>
    /\ ret.kind = "return"
    /\ RatEq(ret.value, Minus(aggregate(database.control), aggregate(database.test)))
    /\ RatEq(ret.value, <<1, 2>>)

\* 0 < (observed - expected)^2 / expected < 1 for expected > 0, by cross
\* multiplication.
StatisticInUnitInterval(observed, expected) ==
  /\ observed[1] * expected[2] # expected[1] * observed[2]
  /\ (observed[1] * expected[2] - expected[1] * observed[2])
       * (observed[1] * expected[2] - expected[1] * observed[2])
     < observed[2] * observed[2] * expected[2] * expected[1]

C4_NaiveSplitIsModuloAndUneven ==
  /\ Returned("split_traffic_naive") =>
       /\ ret.kind = "return"
       /\ ret.value \in {"t", "c"}
       /\ ret.value = "t" <=> call.id % call.prime_n > call.prime_n \div 2
  /\ (test.name = "test_split_traffic_naive" /\ test.i = Population) =>
       test.test_count # test.control_count

C4_NaiveTestPassed ==
  /\ test.name = "test_split_traffic_naive"
  /\ test.outcome = "passed"
  /\ test.test_count = 4284
  /\ test.control_count = 5716
  /\ call = NaiveArgs(Population - 1, 7)

C6_FinitePositive ==
  (Returned("calculate_sample_size") /\ call.pct_min_detectable_efect > 0) =>
    /\ ret.kind = "return"
    /\ ret.value.kind = "finite"
    /\ ret.value.v > 0
    /\ call = SampleSizeArgs(5, 80, 20, 6) => round(ret.value.v) = 17557

\* The bound of the unit test: at most 5% of the greater count.
WithinFivePercent(tst) == 20 * Abs(tst.test_count - tst.control_count) <= greater_count(tst)

\* C7: split_traffic applied with one fixed experiment id and
\* control_group_size = 0.5 to the ids 0..9999 gives counts of test and
\* control that differ by no more than 5% of the larger count.
C7_WithinFivePercentForAnyExperiment ==
  (test.name = "test_split_traffic" /\ test.i = Population) =>
    WithinFivePercent(test)

\* C7, as it holds: with the experiment id "exp12" of the unit test and
\* control_group_size = 0.5, the counts over the ids 0..9999 differ by no
\* more than 5% of the larger count.
C7_WithinFivePercentForExp12 ==
  (test.name = "test_split_traffic" /\ test.i = Population
     /\ test.experiment_id = exp12) =>
    WithinFivePercent(test)

C7_Exp12TestPassed ==
  /\ test.name = "test_split_traffic"
  /\ test.experiment_id = exp12
  /\ test.outcome = "passed"
  /\ test.test_count = 4939
  /\ test.control_count = 5061

\* C8: calculate_sample_size called with a minimum detectable effect of 0
\* fails with InvalidParameter and never returns infinity, NaN or any value.
C8_ZeroEffectRejected ==
  (Returned("calculate_sample_size") /\ call.pct_min_detectable_efect = 0) =>
    /\ ret.kind = "raise"
    /\ ret.exc = "InvalidParameter"

\* C9: are_buckets_balanced called with expected = 0 fails with
\* InvalidParameter and never returns a boolean.
C9_ZeroExpectedRejected ==
  (Returned("are_buckets_balanced") /\ call.expected[1] = 0) =>
    /\ ret.kind = "raise"
    /\ ret.exc = "InvalidParameter"

LabelIsTestIffGreater(fraction) ==
  /\ ret.kind = "return"
  /\ ret.value = "t" <=> RatGt(fraction, call.control_group_size)

\* h / 0xFFFFFF is in [0, 1) and decides the label.
InHalfOpenUnitInterval(h) ==
  /\ h \in 0 .. 16777215
  /\ ~RatLt(ab_split(h), <<0, 1>>)
  /\ RatLt(ab_split(h), <<1, 1>>)
  /\ LabelIsTestIffGreater(ab_split(h))

\* h / 0xFFFFFF is in [0, 1], is 1 only for h = 0xFFFFFF, and decides the label.
InClosedUnitInterval(h) ==
  /\ h \in 0 .. 16777215
  /\ ~RatLt(ab_split(h), <<0, 1>>)
  /\ ~RatGt(ab_split(h), <<1, 1>>)
  /\ RatEq(ab_split(h), <<1, 1>>) <=> h = 16777215
  /\ LabelIsTestIffGreater(ab_split(h))

\* C10: in split_traffic the fraction h / 0xFFFFFF of the first 6 hex digits
\* h of the hash lies in [0, 1), never equal to 1, and the label is test
\* exactly when the fraction is strictly greater than control_group_size.
C10_FractionBelowOne ==
  Returned("split_traffic") =>
    InHalfOpenUnitInterval(test_id_final_int(call.id, call.experiment_id))

\* C10, as it holds: the fraction h / 0xFFFFFF lies in [0, 1] and equals 1
\* exactly when h = 0xFFFFFF, which a hash can give; the label is test
\* exactly when the fraction is strictly greater than control_group_size.
C10_FractionAtMostOne ==
  Returned("split_traffic") =>
    InClosedUnitInterval(test_id_final_int(call.id, call.experiment_id))

C10_FractionIsOne ==
  /\ Returned("split_traffic")
  /\ call = SplitTrafficArgs(2059958, exp12, <<1, 1>>)
  /\ ret.kind = "return"
  /\ ret.value = "c"
  /\ test_id_final_int(call.id, call.experiment_id) = 16777215

=============================================================================
